---- MODULE Spec2Model ----
(***************************************************************************)
(* kb_expenses (src/run.py): CategoryAssigner, the ordered regex rules     *)
(* that give a counterparty its name and category, and StatementData, the  *)
(* bank statement read with pandas, annotated by the assigner and queried  *)
(* by two reports.                                                         *)
(*                                                                         *)
(* Text is a sequence of one-character strings, so that slicing, regex     *)
(* matching and the parsing of dates and numbers are computed character by *)
(* character.  A cell pandas reads as missing is the value NaN.            *)
(***************************************************************************)
EXTENDS Integers, Sequences, FiniteSets, TLC

VARIABLES
  rules_json,      \* content of the rules file: a sequence of {regex, name, category}
  statement_csv,   \* content of the statement file: a sequence of lines
  pc,              \* "start" | "assigner" | "loaded" | "raised"
  regex_map,       \* CategoryAssigner._regex_map
  df,              \* StatementData._df
  raised,          \* the exception that ended __init__, or "none"
  ret,             \* the last direct call of get_category / get_name and its outcome
  printed,         \* what print_unknown_categories printed last
  first_printed,   \* what its first call printed
  summary,         \* the grouped sums show_expense_pie_chart plotted last
  df_loaded        \* _df as _parse returned it

vars == <<rules_json, statement_csv, pc, regex_map, df, raised, ret, printed,
          first_printed, summary, df_loaded>>

(***************************************************************************)
(* Bounds of the model.                                                    *)
(***************************************************************************)
MaxRules == 2
MaxBody == 3

(***************************************************************************)
(* Values.                                                                 *)
(***************************************************************************)
NoOutput == [called |-> FALSE, value |-> <<>>]
Output(v) == [called |-> TRUE, value |-> v]
NoCall == [fn |-> "none", arg |-> <<>>, out |-> <<"none", "">>]
NaN == <<"NaN">>
NaT == <<0, 0, 0>>
Ok(v) == <<"ok", v>>
Raise(e) == <<"raise", e>>
IsRaise(r) == r[1] = "raise"

Spaces(n) == [i \in 1..n |-> " "]
Slice(s, n) == SubSeq(s, 1, IF Len(s) < n THEN Len(s) ELSE n)

(***************************************************************************)
(* re.match(regex, string) for the regex dialect of the rules modelled:    *)
(* literal characters, "." (any character), a postfix "*" and "(", which   *)
(* opens a group.  No modelled pattern closes a group, so a pattern with   *)
(* "(" does not compile, nor does one whose "*" has nothing to repeat.     *)
(* The match is anchored at the start of the string and may end anywhere.  *)
(***************************************************************************)
re_compiles(regex) ==
  /\ \A i \in 1..Len(regex) : regex[i] # "("
  /\ \A i \in 1..Len(regex) :
        regex[i] = "*" => (i > 1 /\ regex[i - 1] # "*")

atom_matches(a, c) == a = "." \/ a = c

RECURSIVE match_here(_, _, _, _)
match_here(regex, i, s, j) ==
  IF i > Len(regex) THEN TRUE
  ELSE IF i < Len(regex) /\ regex[i + 1] = "*"
    THEN \E k \in 0..(Len(s) - j + 1) :
            /\ \A m \in j..(j + k - 1) : atom_matches(regex[i], s[m])
            /\ match_here(regex, i + 2, s, j + k)
    ELSE /\ j <= Len(s)
         /\ atom_matches(regex[i], s[j])
         /\ match_here(regex, i + 1, s, j + 1)

re_match(regex, s) ==
  IF ~re_compiles(regex) THEN Raise("re.error")
  ELSE IF s = NaN THEN Raise("TypeError")
  ELSE Ok(match_here(regex, 1, s, 1))

(***************************************************************************)
(* CategoryAssigner.                                                       *)
(***************************************************************************)
from_json(items) ==
  [i \in 1..Len(items) |-> <<items[i].regex, items[i].name, items[i].category>>]

RECURSIVE scan(_, _, _, _, _)
scan(map, i, counterparty, field, default) ==
  IF i > Len(map) THEN Ok(default)
  ELSE LET m == re_match(map[i][1], counterparty)
       IN  IF IsRaise(m) THEN m
           ELSE IF m[2] THEN Ok(map[i][field])
           ELSE scan(map, i + 1, counterparty, field, default)

RECURSIVE scan_last(_, _, _, _, _)
scan_last(map, i, counterparty, field, default) ==
  IF i > Len(map) THEN Ok(default)
  ELSE LET m == re_match(map[i][1], counterparty)
           rest == scan_last(map, i + 1, counterparty, field, default)
       IN  IF IsRaise(m) THEN m
           ELSE IF IsRaise(rest) THEN rest
           ELSE IF m[2] /\ rest = Ok(default) THEN Ok(map[i][field])
           ELSE rest

get_category_last(map, counterparty) ==
  scan_last(map, 1, counterparty, 3, "unknown category")

get_category(map, counterparty) ==
  scan(map, 1, counterparty, 3, "unknown category")

get_name_last(map, counterparty) ==
  scan_last(map, 1, counterparty, 2, "unknown name")

get_name_short_default(map, counterparty) ==
  LET r == scan(map, 1, counterparty, 2, "unknown name")
  IN  IF r = Ok("unknown name") THEN Ok("unknown") ELSE r

get_name(map, counterparty) ==
  scan(map, 1, counterparty, 2, "unknown name")

(***************************************************************************)
(* pandas.to_datetime(text, format="%d.%m.%Y").  The day is the text       *)
(* before the first dot, the month the text between the dots, the year the *)
(* rest; pandas' strptime takes a day or month of one digit too, and a     *)
(* missing value becomes NaT.                                              *)
(***************************************************************************)
DigitChars == <<"0", "1", "2", "3", "4", "5", "6", "7", "8", "9">>
IsDigit(c) == \E k \in 1..Len(DigitChars) : DigitChars[k] = c
DigitVal(c) == (CHOOSE k \in 1..Len(DigitChars) : DigitChars[k] = c) - 1
AllDigits(s) == \A i \in 1..Len(s) : IsDigit(s[i])

RECURSIVE ToInt(_)
ToInt(s) ==
  IF s = <<>> THEN 0
  ELSE 10 * ToInt(SubSeq(s, 1, Len(s) - 1)) + DigitVal(s[Len(s)])

IsLeap(y) == (y % 4 = 0 /\ y % 100 # 0) \/ y % 400 = 0
DaysInMonth(y, m) ==
  IF m = 2 THEN (IF IsLeap(y) THEN 29 ELSE 28)
  ELSE IF m \in {4, 6, 9, 11} THEN 30 ELSE 31

DayToken(s) ==
  \/ Len(s) = 2 /\ AllDigits(s) /\ ToInt(s) \in 1..31
  \/ Len(s) = 1 /\ AllDigits(s) /\ ToInt(s) \in 1..9
  \/ Len(s) = 2 /\ s[1] = " " /\ IsDigit(s[2]) /\ s[2] # "0"

MonthToken(s) ==
  \/ Len(s) = 2 /\ AllDigits(s) /\ ToInt(s) \in 1..12
  \/ Len(s) = 1 /\ AllDigits(s) /\ ToInt(s) \in 1..9

to_datetime(text) ==
  IF text = NaN THEN Ok(NaT)
  ELSE LET dots == {i \in 1..Len(text) : text[i] = "."}
       IN  IF Cardinality(dots) # 2 THEN Raise("ValueError")
           ELSE LET d1 == CHOOSE i \in dots : \A j \in dots : i <= j
                    d2 == CHOOSE i \in dots : \A j \in dots : j <= i
                    ds == SubSeq(text, 1, d1 - 1)
                    ms == SubSeq(text, d1 + 1, d2 - 1)
                    ys == SubSeq(text, d2 + 1, Len(text))
                    dv == ToInt(SelectSeq(ds, IsDigit))
                IN  IF /\ DayToken(ds)
                       /\ MonthToken(ms)
                       /\ Len(ys) = 4 /\ AllDigits(ys)
                       /\ dv <= DaysInMonth(ToInt(ys), ToInt(ms))
                    THEN Ok(<<ToInt(ys), ToInt(ms), dv>>)
                    ELSE Raise("ValueError")

(***************************************************************************)
(* pandas.to_numeric(text) after str.replace(",", ".").  Amounts are kept  *)
(* in hundredths; the modelled statements write at most two decimals.  A   *)
(* missing value stays missing.                                            *)
(***************************************************************************)
Num(n) == <<"num", n>>
NaNAmount == <<"nan", 0>>

str_replace_comma(text) ==
  IF text = NaN THEN NaN
  ELSE [i \in 1..Len(text) |-> IF text[i] = "," THEN "." ELSE text[i]]

IsNumberText(t) ==
  LET signed == t # <<>> /\ t[1] \in {"-", "+"}
      body == IF signed THEN Tail(t) ELSE t
      dots == {i \in 1..Len(body) : body[i] = "."}
  IN  /\ Cardinality(dots) <= 1
      /\ \A i \in 1..Len(body) : body[i] = "." \/ IsDigit(body[i])
      /\ \E i \in 1..Len(body) : IsDigit(body[i])

NumberValue(t) ==
  LET neg == t[1] = "-"
      body == IF t[1] \in {"-", "+"} THEN Tail(t) ELSE t
      dots == {i \in 1..Len(body) : body[i] = "."}
      dot == IF dots = {} THEN Len(body) + 1 ELSE CHOOSE i \in dots : TRUE
      whole == ToInt(SubSeq(body, 1, dot - 1))
      frac == SubSeq(body, dot + 1, Len(body))
      hundredths == IF Len(frac) = 0 THEN 0
                    ELSE IF Len(frac) = 1 THEN 10 * ToInt(frac)
                    ELSE ToInt(SubSeq(frac, 1, 2))
      v == 100 * whole + hundredths
  IN  IF neg THEN 0 - v ELSE v

to_numeric(text) ==
  IF text = NaN THEN Ok(NaNAmount)
  ELSE IF IsNumberText(text) THEN Ok(Num(NumberValue(text)))
  ELSE Raise("ValueError")

(***************************************************************************)
(* StatementData._parse.  pandas.read_csv(delimiter=";", skiprows=17)      *)
(* drops the first 17 lines of the file, drops blank lines, takes the      *)
(* first line left as the column header and every later one as a record.   *)
(* A record shorter than the header is padded with missing values, and an  *)
(* empty field is read as a missing value.  No line of the modelled files  *)
(* has more fields than the 19 of the bank's export.                       *)
(***************************************************************************)
SkipRows == 17
ColDueDate == 0
ColAmount == 4
ColCounterparty == 15
ColDate == 18
DateLen == 10

NotBlank(line) == line # <<>>

AfterSkip(lines) ==
  IF Len(lines) <= SkipRows THEN <<>> ELSE SubSeq(lines, SkipRows + 1, Len(lines))

Kept(lines) == SelectSeq(AfterSkip(lines), NotBlank)

RecordsNoHeader(lines) == Kept(lines)

Records(lines) == Tail(Kept(lines))

Cell(record, col) ==
  IF col + 1 > Len(record) \/ record[col + 1] = <<>> THEN NaN ELSE record[col + 1]

\* lines 115-119: the transaction date cut to 10 characters, or the due date
FallbackAnyBlank(date10, due) ==
  IF \A i \in 1..Len(date10) : date10[i] = " " THEN due ELSE date10

Fallback(date10, due) ==
  IF date10 = Spaces(DateLen) THEN due ELSE date10

DateText(record) ==
  Fallback(Slice(Cell(record, ColDate), DateLen), Cell(record, ColDueDate))

\* line 126: Series.str exists only on a column of strings; read_csv makes a
\* column numeric when every value it holds is a number or missing
AmountIsText(records) ==
  \E i \in 1..Len(records) :
     LET a == Cell(records[i], ColAmount) IN a # NaN /\ ~IsNumberText(a)

RECURSIVE FirstRaise(_)
FirstRaise(results) ==
  IF results = <<>> THEN Ok(TRUE)
  ELSE IF IsRaise(Head(results)) THEN Head(results)
  ELSE FirstRaise(Tail(results))

RowOf(map, record) ==
  [due_date     |-> to_datetime(Cell(record, ColDueDate))[2],
   amount       |-> to_numeric(str_replace_comma(Cell(record, ColAmount)))[2],
   counterparty |-> Cell(record, ColCounterparty),
   date         |-> to_datetime(DateText(record))[2],
   category     |-> get_category(map, Cell(record, ColCounterparty))[2],
   name         |-> get_name(map, Cell(record, ColCounterparty))[2]]

\* The outcomes of _parse: a table, or the exception of the first statement
\* that raises.  On a frame without rows DataFrame.apply(axis=1) calls the
\* lambda on a placeholder row, or not at all, and returns a Series or a
\* frame according to the pandas installed and to whether that call raised;
\* assigning a frame to one column can raise ValueError.  Both outcomes, the
\* empty table and the exception, are possible.
parse(map, lines) ==
  LET kept == Kept(lines)
      recs == Records(lines)
      n    == Len(recs)
      step(f(_)) == FirstRaise([i \in 1..n |-> f(recs[i])])
      slice(r)   == IF Cell(r, ColDate) = NaN THEN Raise("TypeError") ELSE Ok(TRUE)
      date(r)    == to_datetime(DateText(r))
      due(r)     == to_datetime(Cell(r, ColDueDate))
      amount(r)  == to_numeric(str_replace_comma(Cell(r, ColAmount)))
      cat(r)     == get_category(map, Cell(r, ColCounterparty))
      nam(r)     == get_name(map, Cell(r, ColCounterparty))
  IN  IF kept = <<>> THEN {Raise("EmptyDataError")}
      ELSE IF Len(Head(kept)) <= ColDate THEN {Raise("IndexError")}
      ELSE IF n = 0 THEN {Raise("ValueError"), Ok(<<>>)}
      ELSE IF IsRaise(step(slice)) THEN {step(slice)}
      ELSE IF IsRaise(step(date)) THEN {step(date)}
      ELSE IF IsRaise(step(due)) THEN {step(due)}
      ELSE IF ~AmountIsText(recs) THEN {Raise("AttributeError")}
      ELSE IF IsRaise(step(amount)) THEN {step(amount)}
      ELSE IF IsRaise(step(cat)) THEN {step(cat)}
      ELSE IF IsRaise(step(nam)) THEN {step(nam)}
      ELSE {Ok([i \in 1..n |-> RowOf(map, recs[i])])}

\* lines 139-145: the rows of unknown category, projected, in the table's order
IsUnknown(row) == row.category = "unknown category"
IsKnown(row) == row.category # "unknown category"
Projection(rows) ==
  [i \in 1..Len(rows) |->
     [date |-> rows[i].date, amount |-> rows[i].amount,
      counterparty |-> rows[i].counterparty]]

unknown_rows_known(d) == Projection(SelectSeq(d, IsKnown))

unknown_rows(d) == Projection(SelectSeq(d, IsUnknown))

\* lines 149-151: rows of negative amount (a missing amount is not negative),
\* their amount negated, grouped by category and summed
IsSpent(row) == row.amount[1] = "num" /\ row.amount[2] < 0

RECURSIVE GroupSum(_, _)
GroupSum(rows, c) ==
  IF rows = <<>> THEN 0
  ELSE (IF Head(rows).category = c THEN Head(rows).amount ELSE 0)
       + GroupSum(Tail(rows), c)

GroupBySum(rows) ==
  [c \in {rows[i].category : i \in 1..Len(rows)} |-> GroupSum(rows, c)]

Negated(rows) ==
  [i \in 1..Len(rows) |->
     [amount |-> (0 - 1) * rows[i].amount[2], category |-> rows[i].category]]

expense_summary_all_rows(d) ==
  GroupBySum(Negated(SelectSeq(d, LAMBDA r : r.amount[1] = "num")))

expense_summary(d) == GroupBySum(Negated(SelectSeq(d, IsSpent)))

\* line 150 multiplies the amounts of df_spent, which boolean indexing made a
\* copy of the selected rows: _df itself is not written
stored_after_chart_in_place(d) ==
  [i \in 1..Len(d) |->
     IF IsSpent(d[i]) THEN [d[i] EXCEPT !.amount = Num((0 - 1) * d[i].amount[2])]
     ELSE d[i]]

stored_after_chart(d) == d

(***************************************************************************)
(* Inputs: the rules file and the statement file.                          *)
(***************************************************************************)
Rule(regex, name, category) == [regex |-> regex, name |-> name, category |-> category]

RulePool ==
  { Rule(<<"A">>, "name A", "food"),
    Rule(<<".", "*", "B">>, "name B", "fuel"),
    Rule(<<"(">>, "name P", "broken") }

Counterparties == { <<"A", "B">>, <<"A">>, <<"C", "B">>, <<"C", "A">>, <<>> }

Injective(f) == \A i, j \in DOMAIN f : f[i] = f[j] => i = j

DistinctSeqs(S, n) ==
  UNION { {f \in [1..k -> S] : Injective(f)} : k \in 0..n }

RuleFiles == DistinctSeqs(RulePool, MaxRules)

D15 == <<"1", "5", ".", "0", "3", ".", "2", "0", "2", "3">>
D17 == <<"1", "7", ".", "0", "3", ".", "2", "0", "2", "3">>
D16Time == <<"1", "6", ".", "0", "3", ".", "2", "0", "2", "3",
             " ", "0", "8", ":", "1", "5">>

NumberOfColumns == ColDate + 1

Record(due, amount, counterparty, date) ==
  [i \in 1..NumberOfColumns |->
     IF i = ColDueDate + 1 THEN due
     ELSE IF i = ColAmount + 1 THEN amount
     ELSE IF i = ColCounterparty + 1 THEN counterparty
     ELSE IF i = ColDate + 1 THEN date
     ELSE <<"x">>]

HeaderLine == [i \in 1..NumberOfColumns |-> <<"h">>]
BlankLine == <<>>
PreambleLine == << <<"p">> >>

RowA == Record(D15, <<"-", "1", "0", ",", "5", "0">>, <<"A", "B">>, D16Time)
RowB == Record(D15, <<"2", "0", ",", "0", "0">>, <<"C", "A">>, Spaces(DateLen + 2))
RowC == Record(D17, <<"-", "5", ",", "2", "5">>, <<"A">>, D17)
RowD == Record(D15, <<"-", "5", ",", "2", "5">>, <<"C", "B">>, Spaces(DateLen - 1))
RowE == SubSeq(RowA, 1, DateLen)
RowF == Record(D15, <<>>, <<"A">>, D15)
RowG == Record(D15, <<"a", "b", "c">>, <<"A", "B">>, D15)

LinePool == {HeaderLine, BlankLine, RowA, RowB, RowC, RowD, RowE, RowF, RowG}

StatementFiles ==
  { [i \in 1..p |-> PreambleLine] \o body :
      p \in {SkipRows - 1, SkipRows}, body \in DistinctSeqs(LinePool, MaxBody) }

(***************************************************************************)
(* The program: StatementData(statement, rules), then the two reports.     *)
(***************************************************************************)
Init ==
  /\ rules_json \in RuleFiles
  /\ statement_csv \in StatementFiles
  /\ pc = "start"
  /\ regex_map = <<>>
  /\ df = <<>>
  /\ raised = "none"
  /\ ret = NoCall
  /\ printed = NoOutput
  /\ first_printed = NoOutput
  /\ summary = NoOutput
  /\ df_loaded = <<>>

\* StatementData.__init__
StatementData_init ==
  /\ pc = "start"
  /\ regex_map' = from_json(rules_json)
  /\ \E o \in parse(from_json(rules_json), statement_csv) :
        IF IsRaise(o)
        THEN /\ pc' = "raised"
             /\ raised' = o[2]
             /\ UNCHANGED <<df, df_loaded>>
        ELSE /\ pc' = "loaded"
             /\ df' = o[2]
             /\ df_loaded' = o[2]
             /\ UNCHANGED raised
  /\ UNCHANGED <<rules_json, statement_csv, ret, printed, first_printed, summary>>

print_unknown_categories ==
  /\ pc = "loaded"
  /\ printed' = Output(unknown_rows(df))
  /\ first_printed' = IF first_printed.called THEN first_printed
                      ELSE Output(unknown_rows(df))
  /\ UNCHANGED <<rules_json, statement_csv, pc, regex_map, df, raised, ret,
                 summary, df_loaded>>

show_expense_pie_chart ==
  /\ pc = "loaded"
  /\ summary' = Output(expense_summary(df))
  /\ df' = stored_after_chart(df)
  /\ UNCHANGED <<rules_json, statement_csv, pc, regex_map, raised, ret,
                 printed, first_printed, df_loaded>>

Next ==
  \/ StatementData_init
  \/ print_unknown_categories
  \/ show_expense_pie_chart

Spec == Init /\ [][Next]_vars

(***************************************************************************)
(* The assigner on its own: CategoryAssigner.from_json(rules), then calls  *)
(* of get_category and get_name with counterparty strings.                 *)
(***************************************************************************)
MatcherInit ==
  /\ rules_json \in RuleFiles
  /\ statement_csv = <<>>
  /\ pc = "start"
  /\ regex_map = <<>>
  /\ df = <<>>
  /\ raised = "none"
  /\ ret = NoCall
  /\ printed = NoOutput
  /\ first_printed = NoOutput
  /\ summary = NoOutput
  /\ df_loaded = <<>>

CategoryAssigner_from_json ==
  /\ pc = "start"
  /\ regex_map' = from_json(rules_json)
  /\ pc' = "assigner"
  /\ UNCHANGED <<rules_json, statement_csv, df, raised, ret, printed,
                 first_printed, summary, df_loaded>>

call_get_category ==
  /\ pc = "assigner"
  /\ \E c \in Counterparties :
        ret' = [fn |-> "get_category", arg |-> c, out |-> get_category(regex_map, c)]
  /\ UNCHANGED <<rules_json, statement_csv, pc, regex_map, df, raised, printed,
                 first_printed, summary, df_loaded>>

call_get_name ==
  /\ pc = "assigner"
  /\ \E c \in Counterparties :
        ret' = [fn |-> "get_name", arg |-> c, out |-> get_name(regex_map, c)]
  /\ UNCHANGED <<rules_json, statement_csv, pc, regex_map, df, raised, printed,
                 first_printed, summary, df_loaded>>

MatcherNext ==
  \/ CategoryAssigner_from_json
  \/ call_get_category
  \/ call_get_name

MatcherSpec == MatcherInit /\ [][MatcherNext]_vars

(***************************************************************************)
(* The properties.  What a pattern matches is stated here on its own: a    *)
(* pattern matches a counterparty when it is a regular expression and some *)
(* prefix of the counterparty belongs to its language.                     *)
(***************************************************************************)
RECURSIVE InLanguage(_, _)
InLanguage(regex, w) ==
  IF regex = <<>> THEN w = <<>>
  ELSE IF Len(regex) >= 2 /\ regex[2] = "*"
    THEN \/ InLanguage(SubSeq(regex, 3, Len(regex)), w)
         \/ /\ w # <<>>
            /\ (regex[1] = "." \/ regex[1] = Head(w))
            /\ InLanguage(regex, Tail(w))
    ELSE /\ w # <<>>
         /\ (regex[1] = "." \/ regex[1] = Head(w))
         /\ InLanguage(Tail(regex), Tail(w))

IsRegex(regex) ==
  /\ "(" \notin {regex[i] : i \in 1..Len(regex)}
  /\ \A i \in 1..Len(regex) : regex[i] = "*" => (i > 1 /\ regex[i - 1] # "*")

PrefixMatches(regex, counterparty) ==
  /\ IsRegex(regex)
  /\ counterparty # NaN
  /\ \E n \in 0..Len(counterparty) : InLanguage(regex, SubSeq(counterparty, 1, n))

Hits(map, counterparty) ==
  {i \in 1..Len(map) : PrefixMatches(map[i][1], counterparty)}

Least(S) == CHOOSE i \in S : \A j \in S : i <= j

Called == ret.fn # "none"
FieldOf(fn) == IF fn = "get_category" THEN 3 ELSE 2
DefaultOf(fn) == IF fn = "get_category" THEN "unknown category" ELSE "unknown name"

\* C1: first match wins.  For a rule list and a counterparty string,
\* get_category and get_name return the category and the name of the rule
\* of smallest index whose pattern matches a prefix of the counterparty,
\* whatever later rules match too.  The rules read up to that one are
\* regular expressions (a pattern that is none is the subject of C3).
C1_FirstMatchWins ==
  Called =>
    LET hits == Hits(regex_map, ret.arg)
    IN  (hits # {} /\ \A k \in 1..Least(hits) : IsRegex(regex_map[k][1]))
          => ret.out = Ok(regex_map[Least(hits)][FieldOf(ret.fn)])

C1_Witness ==
  /\ ret.fn = "get_category"
  /\ Cardinality(Hits(regex_map, ret.arg)) = 2
  /\ regex_map[1][3] # regex_map[2][3]
  /\ ret.out = Ok(regex_map[1][3])

\* C2: fallback.  For a counterparty string that no rule of the list
\* matches, the empty list included, get_category returns exactly
\* "unknown category" and get_name exactly "unknown name", and nothing is
\* raised.  The rules of the list are regular expressions (C3).
C2_Fallback ==
  Called =>
    ((Hits(regex_map, ret.arg) = {}
        /\ \A k \in 1..Len(regex_map) : IsRegex(regex_map[k][1]))
      => ret.out = Ok(DefaultOf(ret.fn)))

C2_Witness ==
  /\ ret.fn = "get_name"
  /\ regex_map # <<>>
  /\ Hits(regex_map, ret.arg) = {}
  /\ ret.out = Ok("unknown name")

\* C3: totality.  Once the assigner is constructed, get_category and
\* get_name return a value and never raise, for any counterparty string:
\* a pattern that is no regular expression was rejected at construction.
C3_CallNeverRaises == Called => ~IsRaise(ret.out)

(***************************************************************************)
(* The statement file as the properties read it: the lines after the       *)
(* first 17, and the shapes a well-formed row has.                         *)
(***************************************************************************)
Loaded == pc = "loaded"
LinesAfterPreamble == {i \in 1..Len(statement_csv) : i > SkipRows}
NonBlankAfterPreamble == {i \in LinesAfterPreamble : statement_csv[i] # <<>>}
Nth(S, k) == CHOOSE i \in S : Cardinality({j \in S : j <= i}) = k
DataLines == NonBlankAfterPreamble \ {Least(NonBlankAfterPreamble)}

Field(line, col) == IF col + 1 <= Len(line) THEN line[col + 1] ELSE <<>>
First10(text) == [i \in 1..(IF Len(text) < 10 THEN Len(text) ELSE 10) |-> text[i]]
TenSpaces == <<" ", " ", " ", " ", " ", " ", " ", " ", " ", " ">>

IsDDMMYYYY(text) ==
  /\ Len(text) = 10
  /\ \A i \in {1, 2, 4, 5, 7, 8, 9, 10} : IsDigit(text[i])
  /\ text[3] = "." /\ text[6] = "."

IsDecimalComma(text) ==
  /\ text # <<>>
  /\ \A i \in 1..Len(text) :
        \/ IsDigit(text[i])
        \/ text[i] = "," /\ i > 1 /\ i < Len(text)
        \/ text[i] = "-" /\ i = 1
  /\ Cardinality({i \in 1..Len(text) : text[i] = ","}) <= 1
  /\ \E i \in 1..Len(text) : IsDigit(text[i])

Malformed(line) ==
  \/ Len(line) <= ColDate
  \/ ~IsDDMMYYYY(Field(line, ColDueDate))
  \/ ~(First10(Field(line, ColDate)) = TenSpaces
         \/ IsDDMMYYYY(First10(Field(line, ColDate))))
  \/ ~IsDecimalComma(Field(line, ColAmount))

\* C4: load is all or nothing.  If a row of the statement is malformed (too
\* few columns for index 18, a date not of the form DD.MM.YYYY, an amount
\* that is no number), the load fails and no table is built; a table that
\* was built holds a row for every data row of the file.
C4_MalformedRowAbortsLoad ==
  Loaded =>
    /\ \A i \in DataLines : ~Malformed(statement_csv[i])
    /\ Len(df) = Cardinality(DataLines)

\* C5: the reports leave the stored table unchanged.  After any sequence of
\* print_unknown_categories and show_expense_pie_chart, every row of _df
\* has the due date, amount, counterparty, date, category and name it had
\* right after the load, and every call of print_unknown_categories prints
\* what the first one printed.
C5_ReportsLeaveTableUnchanged ==
  Loaded =>
    /\ df = df_loaded
    /\ printed.called => printed = first_printed

C5_Witness ==
  /\ printed.called
  /\ summary.called
  /\ printed.value # <<>>
  /\ \E i \in 1..Len(df) : df[i].amount[1] = "num" /\ df[i].amount[2] < 0
  /\ DOMAIN summary.value # {}

\* C6: the expense summary maps each category to the sum of -amount over
\* exactly the rows of that category whose amount is negative; rows of
\* positive or zero amount add nothing, and a category is a key if and only
\* if one of its rows has a negative amount.
NegativeRows(c) ==
  {i \in 1..Len(df) :
     df[i].category = c /\ df[i].amount[1] = "num" /\ df[i].amount[2] < 0}

RECURSIVE Magnitudes(_)
Magnitudes(S) ==
  IF S = {} THEN 0
  ELSE LET i == CHOOSE j \in S : TRUE
       IN  (0 - df[i].amount[2]) + Magnitudes(S \ {i})

C6_ExpenseSummary ==
  (Loaded /\ summary.called) =>
    /\ DOMAIN summary.value =
         {df[i].category : i \in {j \in 1..Len(df) : NegativeRows(df[j].category) # {}}}
    /\ \A c \in DOMAIN summary.value : summary.value[c] = Magnitudes(NegativeRows(c))

C6_Witness ==
  /\ Loaded /\ summary.called
  /\ \E i, j \in 1..Len(df) :
        /\ df[i].category = df[j].category
        /\ df[i].amount[1] = "num" /\ df[i].amount[2] < 0
        /\ df[j].amount[1] = "num" /\ df[j].amount[2] > 0
        /\ summary.value[df[i].category] = 0 - df[i].amount[2]

\* C7: print_unknown_categories prints the (date, amount, counterparty)
\* projection of exactly the rows whose category is "unknown category",
\* each once, in the order of the stored table.
UnknownIndexes == {i \in 1..Len(df) : df[i].category = "unknown category"}

C7_UnmatchedRows ==
  (Loaded /\ printed.called) =>
    /\ Len(printed.value) = Cardinality(UnknownIndexes)
    /\ \A k \in 1..Len(printed.value) :
          LET i == Nth(UnknownIndexes, k)
          IN  /\ printed.value[k].date = df[i].date
              /\ printed.value[k].amount = df[i].amount
              /\ printed.value[k].counterparty = df[i].counterparty

C7_Witness ==
  /\ Loaded /\ printed.called
  /\ Len(df) = 2
  /\ df[1].category # "unknown category"
  /\ df[2].category = "unknown category"
  /\ Len(printed.value) = 1
  /\ printed.value[1].counterparty = df[2].counterparty

\* C8: date fallback.  For every row of a loaded table the text of the
\* transaction date is cut to its first 10 characters; when that text is
\* exactly 10 spaces the row's date is its due date, and otherwise it is
\* the date the cut text denotes, so the date equals the due date only for
\* 10 spaces or for a text that denotes the same day.  No other text (9
\* spaces, spaces and another character) is replaced by the due date.
SourceOfRow(k) == statement_csv[Nth(DataLines, k)]

C8_DateFallback ==
  Loaded =>
    /\ Len(df) = Cardinality(DataLines)
    /\ \A k \in 1..Len(df) :
          LET text == First10(Field(SourceOfRow(k), ColDate))
          IN  /\ text = TenSpaces => df[k].date = df[k].due_date
              /\ text # TenSpaces => to_datetime(text) = Ok(df[k].date)
              /\ df[k].date = df[k].due_date
                   <=> (text = TenSpaces \/ to_datetime(text) = Ok(df[k].due_date))

C8_Witness ==
  /\ Loaded
  /\ Len(df) = 2
  /\ \E k \in 1..2 :
        /\ First10(Field(SourceOfRow(k), ColDate)) = TenSpaces
        /\ Len(Field(SourceOfRow(k), ColDate)) > 10
        /\ df[k].date = df[k].due_date
  /\ \E k \in 1..2 :
        /\ Len(Field(SourceOfRow(k), ColDate)) > 10
        /\ First10(Field(SourceOfRow(k), ColDate)) # TenSpaces
        /\ df[k].date # df[k].due_date

\* C9 as stated, read on the tables that hold a row: a file of N >= 17
\* lines that loads gives a table of exactly N - 17 rows, the k-th built
\* from line 17 + k; no line after the 17 skipped ones is taken as a header
\* row or dropped.
C9_RowPerLineAfterPreamble ==
  (Loaded /\ df # <<>>) =>
    /\ Len(df) = Len(statement_csv) - SkipRows
    /\ \A k \in 1..Len(df) :
          df[k].counterparty = Field(statement_csv[SkipRows + k], ColCounterparty)

\* C9 as the code has it: exactly the first 17 lines are skipped, the first
\* line after them that is not blank is taken as the column header, and the
\* table holds one row for each later line that is not blank, in the order
\* of the file: N - 18 rows, the k-th built from line 18 + k, when no line
\* after the first 17 is blank.
C9_HeaderThenRowPerLine ==
  Loaded =>
    /\ NonBlankAfterPreamble # {}
    /\ Len(df) = Cardinality(NonBlankAfterPreamble) - 1
    /\ \A k \in 1..Len(df) :
          df[k].counterparty =
            Field(statement_csv[Nth(NonBlankAfterPreamble, k + 1)], ColCounterparty)
    /\ NonBlankAfterPreamble = LinesAfterPreamble =>
          /\ Len(df) = Len(statement_csv) - (SkipRows + 1)
          /\ \A k \in 1..Len(df) :
                df[k].counterparty =
                  Field(statement_csv[SkipRows + 1 + k], ColCounterparty)

C9_Witness ==
  /\ Loaded
  /\ Len(df) = 2
  /\ Len(statement_csv) = SkipRows + 3
  /\ df[1].counterparty # df[2].counterparty

\* C10: name and category of a row come from the same rule.  For every row
\* of a loaded table, either no rule matches its counterparty and the row
\* holds "unknown name" and "unknown category", or the row holds the name
\* and the category of the one rule of smallest index that matches.
C10_NameAndCategoryFromSameRule ==
  Loaded =>
    \A k \in 1..Len(df) :
      LET hits == Hits(regex_map, df[k].counterparty)
      IN  IF hits = {}
          THEN df[k].name = "unknown name" /\ df[k].category = "unknown category"
          ELSE /\ df[k].name = regex_map[Least(hits)][2]
               /\ df[k].category = regex_map[Least(hits)][3]

C10_Witness ==
  /\ Loaded
  /\ Len(df) = 2
  /\ Cardinality(Hits(regex_map, df[1].counterparty)) = 2
  /\ df[1].name = regex_map[1][2] /\ df[1].category = regex_map[1][3]
  /\ regex_map[1][2] # regex_map[2][2]
  /\ Hits(regex_map, df[2].counterparty) = {}
  /\ df[2].name = "unknown name"

====
